---- MODULE Spec2Model ----
(***************************************************************************)
(* Lucid (src/index.tsx): the React component App as a state machine.      *)
(* Every useState cell that carries task or timer data is a variable; the  *)
(* event handlers and the interval callback are the actions.  Pure view    *)
(* state (viewMode, isSettingsOpen) only decides which controls are on     *)
(* screen; since the user can always switch view or open the settings      *)
(* dialog without touching any other cell, a control counts as available   *)
(* whenever some view renders it.                                          *)
(***************************************************************************)
EXTENDS Integers, Sequences, FiniteSets, TLC

VARIABLES
    userInput,          \* line 49: "" or some non-blank text
    parsedTask,         \* line 50: candidate record or NULL
    editedTask,         \* line 51: edit buffer or NULL
    tasks,              \* line 52: sequence of ParsedTask records
    isEditing,          \* line 53
    isLoading,          \* line 54: TRUE while handleSubmit awaits the service
    error,              \* line 55: NULL or a message
    pomodoroSettings,   \* line 59
    activeTimer,        \* line 60: ActiveTimer record or NULL
    googleCalendarSync, \* line 61
    now,                \* the value Date.now() returns (milliseconds)
    lastOp              \* history: the handler that ran last and its argument

vars == <<userInput, parsedTask, editedTask, tasks, isEditing, isLoading, error,
          pomodoroSettings, activeTimer, googleCalendarSync, now, lastOp>>

parseVars == <<userInput, parsedTask, editedTask, isEditing, isLoading, error>>

\* ------------------------------------------------------------------ bounds

\* Date.now() is followed up to this many milliseconds after construction.
MaxNow == 1
\* handleAccept and handleSyncNow are followed while the store stays this short.
MaxTasks == 3
\* work intervals followed per timer (caps cycleCount).
MaxCycle == 4
\* the larger of the two values typed into a settings field (the other is 1).
MaxSetting == 2

\* ------------------------------------------------------- program constants

NULL == [null |-> TRUE]

TASK_CATEGORIES == {"Work", "Personal", "Study", "Health", "Other"}
TASK_PRIORITIES == {"High", "Medium", "Low"}
DEFAULT_SETTINGS == [work |-> 25, shortBreak |-> 5, longBreak |-> 15, cycles |-> 4]
SettingsFields == {"work", "shortBreak", "longBreak", "cycles"}

\* minutes to seconds, the factor in `pomodoroSettings.work * 60`
SecondsPerMinute == 60

MsPerMinute == 60 * 1000
MsPerDay == 24 * 60 * MsPerMinute

\* ------------------------------------------------------- dates and times
\* A point in time is a number of milliseconds (local time, day 0 starting
\* at 0).  The text "Month Day, Year" of a day is the record [day |-> d];
\* the text "H:MM AM/PM" is the record [hour, minute, pm].

\* toLocaleDateString('en-US', {month: 'long', day: 'numeric', year: 'numeric'})
toLocaleDateString(t) == [day |-> t \div MsPerDay]

\* A time text without its AM/PM part read back: every time is before noon.
toLocaleTimeString_NoMeridiem(t) ==
    LET m  == (t % MsPerDay) \div MsPerMinute
        h  == m \div 60
    IN  [hour   |-> IF h % 12 = 0 THEN 12 ELSE h % 12,
         minute |-> m % 60,
         pm     |-> FALSE]

\* toLocaleTimeString('en-US', {hour: 'numeric', minute: '2-digit', hour12: true})
toLocaleTimeString(t) ==
    LET m  == (t % MsPerDay) \div MsPerMinute
        h  == m \div 60
    IN  [hour   |-> IF h % 12 = 0 THEN 12 ELSE h % 12,
         minute |-> m % 60,
         pm     |-> h >= 12]

\* ------------------------------------------------------ numbers and texts
\* A text that is read character by character is the sequence of its
\* characters.

DigitChars == <<"0", "1", "2", "3", "4", "5", "6", "7", "8", "9">>

IsDigit(c) == \E d \in DOMAIN DigitChars : DigitChars[d] = c
DigitOf(c) == (CHOOSE d \in DOMAIN DigitChars : DigitChars[d] = c) - 1

\* line 332: task.id.toString(), the decimal digits of the id
RECURSIVE toString(_)
toString(n) ==
    IF n < 10 THEN DigitChars[n + 1]
    ELSE toString(n \div 10) \o DigitChars[(n % 10) + 1]

\* The number of digits of text from position i on, and the number that
\* the n digits from position i on spell.
RECURSIVE DigitRun(_, _)
DigitRun(text, i) ==
    IF i <= Len(text) /\ IsDigit(text[i]) THEN 1 + DigitRun(text, i + 1) ELSE 0

RECURSIVE DigitsValue(_, _, _)
DigitsValue(text, i, n) ==
    IF n = 0 THEN 0
    ELSE DigitsValue(text, i, n - 1) * 10 + DigitOf(text[i + n - 1])

\* line 137: parseInt(value, 10) reads an optional sign and the digits that
\* follow it and stops at the first other character; without a digit the
\* result is NaN (the record with nan), else the integer n.
parseInt(value) ==
    LET signed == value # <<>> /\ value[1] \in {"-", "+"}
        first  == IF signed THEN 2 ELSE 1
        digits == DigitRun(value, first)
        number == DigitsValue(value, first, digits)
    IN  IF digits = 0 THEN [nan |-> TRUE, n |-> 0]
        ELSE [nan |-> FALSE,
              n   |-> IF signed /\ value[1] = "-" THEN 0 - number ELSE number]

\* ----------------------------------------------------------------- inputs

\* Results the parsing service returns (JSON.parse(response.text)).
\* The second has a date text that no engine reads as a date (a text such
\* as "February 30, 2024" is read as March 1 by parsers that roll days over).
Candidates ==
    { [taskName |-> "Call Jake", date |-> [day |-> 3],
       time |-> [hour |-> 3, minute |-> 0, pm |-> TRUE],
       category |-> "Work", priority |-> "High"],
      [taskName |-> "Buy milk", date |-> [text |-> "someday"],
       time |-> NULL, category |-> "Personal", priority |-> "Low"] }

\* Points in time a calendar event is dropped on.
DropTimes == { 2 * MsPerDay,
               MsPerDay + 13 * 60 * MsPerMinute + 5 * MsPerMinute + 30 * 1000 }

\* Ids a handler can be called with: every id the clock can have produced.
TaskIds == 0 .. (MaxNow + 1)

\* Values a settings field can hold after the settings dialog was used.
SettingValues == {1, MaxSetting}
\* lines 357-360: the value of an <input type="number"> is the empty text or
\* a valid number text: a sign, digits, a fraction, an exponent.
SettingTexts ==
    { <<>>, <<"-", "1">>, <<"0">>, <<"1">>, <<toString(MaxSetting)>>,
      <<"1", "e", "1">> }

\* ---------------------------------------------------------------- helpers

\* Array.prototype.filter is SelectSeq; Array.prototype.map is the function
\* [i \in DOMAIN s |-> ...] over the same indices.

HasTask(id) == \E i \in DOMAIN tasks : tasks[i].id = id

\* The completed tasks with the one added last in front.
completedTasks_NewestFirst ==
    LET done == SelectSeq(tasks, LAMBDA task : task.status = "completed")
    IN  [k \in DOMAIN done |-> done[Len(done) + 1 - k]]

\* line 311
activeTasks == SelectSeq(tasks, LAMBDA task : task.status = "active")
\* line 312
completedTasks == SelectSeq(tasks, LAMBDA task : task.status = "completed")

\* ------------------------------------------------------------------- Init

Init ==
    /\ userInput = ""
    /\ parsedTask = NULL
    /\ editedTask = NULL
    /\ tasks = <<>>
    /\ isEditing = FALSE
    /\ isLoading = FALSE
    /\ error = NULL
    /\ pomodoroSettings = DEFAULT_SETTINGS
    /\ activeTimer = NULL
    /\ googleCalendarSync = [connected |-> FALSE, user |-> NULL]
    /\ now = 0
    /\ lastOp = [op |-> "init", id |-> 0]

\* --------------------------------------------------------- focus timer

\* transitionToNextMode with the long-break test made on the count before
\* the increment.
transitionToNextMode_OldCount(currentTimer) ==
    IF currentTimer.mode = "work"
    THEN IF currentTimer.cycleCount % pomodoroSettings.cycles = 0
         THEN [currentTimer EXCEPT
                  !.mode = "longBreak",
                  !.timeLeft = pomodoroSettings.longBreak * SecondsPerMinute,
                  !.cycleCount = currentTimer.cycleCount + 1]
         ELSE [currentTimer EXCEPT
                  !.mode = "shortBreak",
                  !.timeLeft = pomodoroSettings.shortBreak * SecondsPerMinute,
                  !.cycleCount = currentTimer.cycleCount + 1]
    ELSE [currentTimer EXCEPT
             !.mode = "work",
             !.timeLeft = pomodoroSettings.work * SecondsPerMinute]

\* transitionToNextMode counting when a break ends instead of when work ends.
transitionToNextMode_CountsBreaks(currentTimer) ==
    IF currentTimer.mode = "work"
    THEN [currentTimer EXCEPT
             !.mode = "shortBreak",
             !.timeLeft = pomodoroSettings.shortBreak * SecondsPerMinute]
    ELSE [currentTimer EXCEPT
             !.mode = "work",
             !.timeLeft = pomodoroSettings.work * SecondsPerMinute,
             !.cycleCount = currentTimer.cycleCount + 1]

\* lines 83-110: the record transitionToNextMode passes to setActiveTimer.
\* The spread ...currentTimer keeps taskId and isPaused.
transitionToNextMode(currentTimer) ==
    IF currentTimer.mode = "work"
    THEN LET newCycleCount   == currentTimer.cycleCount + 1
             isLongBreakTime == newCycleCount % pomodoroSettings.cycles = 0
         IN  IF isLongBreakTime
             THEN [currentTimer EXCEPT
                      !.mode = "longBreak",
                      !.timeLeft = pomodoroSettings.longBreak * SecondsPerMinute,
                      !.cycleCount = newCycleCount]
             ELSE [currentTimer EXCEPT
                      !.mode = "shortBreak",
                      !.timeLeft = pomodoroSettings.shortBreak * SecondsPerMinute,
                      !.cycleCount = newCycleCount]
    ELSE [currentTimer EXCEPT
             !.mode = "work",
             !.timeLeft = pomodoroSettings.work * SecondsPerMinute]

\* The model follows a timer through MaxCycle work intervals.
WithinCycles(timer) == timer.mode = "work" => timer.cycleCount < MaxCycle

\* lines 453-454, 469: the row of an active task shows the timer controls
\* when the timer is attached to it.
isTimerActiveForTask(taskId) == activeTimer # NULL /\ activeTimer.taskId = taskId

InActiveList(taskId) ==
    \E i \in DOMAIN tasks : tasks[i].id = taskId /\ tasks[i].status = "active"

TimerControlsShown == activeTimer # NULL /\ InActiveList(activeTimer.taskId)

\* The Start Timer button never disabled.
StartDisabled_Never == FALSE

\* line 487: disabled={!!activeTimer}
StartDisabled == activeTimer # NULL

\* lines 113-119: the record handleStartTimer sets
NewTimer(taskId) ==
    [taskId |-> taskId,
     timeLeft |-> pomodoroSettings.work * SecondsPerMinute,
     mode |-> "work",
     cycleCount |-> 0,
     isPaused |-> FALSE]

\* lines 484-490 and 112-120: a press of the Start Timer button in the row
\* of an active task; a disabled button runs no handler.
handleStartTimer(taskId) ==
    /\ InActiveList(taskId)
    /\ ~isTimerActiveForTask(taskId)
    /\ activeTimer' = IF StartDisabled THEN activeTimer ELSE NewTimer(taskId)
    /\ lastOp' = [op |-> "start", id |-> taskId]
    /\ UNCHANGED <<parseVars, tasks, pomodoroSettings, googleCalendarSync, now>>

\* lines 122-124 (button at 477)
handlePauseResumeTimer ==
    /\ TimerControlsShown
    /\ activeTimer' = [activeTimer EXCEPT !.isPaused = ~activeTimer.isPaused]
    /\ lastOp' = [op |-> "pauseResume", id |-> activeTimer.taskId]
    /\ UNCHANGED <<parseVars, tasks, pomodoroSettings, googleCalendarSync, now>>

\* lines 126-130 (button at 480)
handleSkip ==
    /\ TimerControlsShown
    /\ WithinCycles(activeTimer)
    /\ activeTimer' = transitionToNextMode(activeTimer)
    /\ lastOp' = [op |-> "skip", id |-> activeTimer.taskId]
    /\ UNCHANGED <<parseVars, tasks, pomodoroSettings, googleCalendarSync, now>>

\* lines 132-134 (button at 481)
handleResetTimer ==
    /\ TimerControlsShown
    /\ activeTimer' = NULL
    /\ lastOp' = [op |-> "reset", id |-> activeTimer.taskId]
    /\ UNCHANGED <<parseVars, tasks, pomodoroSettings, googleCalendarSync, now>>

\* line 138: !isNaN(numValue) && numValue > 0
SettingAccepted(numValue) == ~numValue.nan /\ numValue.n > 0

\* A settings change that restarts the running countdown with the new length.
handleSettingsChange_Restarts(field, value) ==
    /\ LET numValue == parseInt(value)
       IN  pomodoroSettings' =
               IF SettingAccepted(numValue)
               THEN [pomodoroSettings EXCEPT ![field] = numValue.n]
               ELSE pomodoroSettings
    /\ activeTimer' = IF activeTimer # NULL /\ SettingAccepted(parseInt(value))
                         THEN [activeTimer EXCEPT
                                  !.timeLeft = pomodoroSettings'[activeTimer.mode]
                                                 * SecondsPerMinute]
                         ELSE activeTimer
    /\ lastOp' = [op |-> "settings", id |-> 0]
    /\ UNCHANGED <<parseVars, tasks, googleCalendarSync, now>>

\* lines 136-141: value is the text of the input
handleSettingsChange(field, value) ==
    /\ LET numValue == parseInt(value)
       IN  pomodoroSettings' =
               IF SettingAccepted(numValue)
               THEN [pomodoroSettings EXCEPT ![field] = numValue.n]
               ELSE pomodoroSettings
    /\ lastOp' = [op |-> "settings", id |-> 0]
    /\ UNCHANGED <<parseVars, tasks, activeTimer, googleCalendarSync, now>>

\* A countdown that goes on to zero before it changes mode.
TickOutcomes_StoresZero(prev) ==
    IF prev.timeLeft > 0
    THEN { [prev EXCEPT !.timeLeft = prev.timeLeft - 1] }
    ELSE { transitionToNextMode(prev), NULL }

\* lines 64-81: the interval callback, one second after the last render with
\* a running timer.  At the end of a countdown the updater calls
\* transitionToNextMode, whose setActiveTimer(record) is a second update of
\* the same cell made from inside the updater, and then returns null.  An
\* updater with a side effect is outside React's contract and the order of
\* the two writes is React's choice: when React runs the updater while
\* rendering, the nested write is applied after the updater's null and the
\* record stands; when React runs it eagerly at the setActiveTimer call
\* (no update pending on the component), the nested write is queued first
\* and the updater's null stands.
TickOutcomes(prev) ==
    IF prev.timeLeft > 1
    THEN { [prev EXCEPT !.timeLeft = prev.timeLeft - 1] }
    ELSE { transitionToNextMode(prev), NULL }

Tick ==
    /\ activeTimer # NULL
    /\ ~activeTimer.isPaused
    /\ activeTimer.timeLeft <= 1 => WithinCycles(activeTimer)
    /\ activeTimer' \in TickOutcomes(activeTimer)
    /\ lastOp' = [op |-> "tick", id |-> activeTimer.taskId]
    /\ UNCHANGED <<parseVars, tasks, pomodoroSettings, googleCalendarSync, now>>

\* ------------------------------------------------- the timer on its own
\* The engine with two accepted tasks in the store and any settings the
\* settings dialog can have produced.

LocalTask(id, c) ==
    [id |-> id, taskName |-> c.taskName, date |-> c.date, time |-> c.time,
     category |-> c.category, priority |-> c.priority,
     status |-> "active", source |-> "lucid"]

SeedCandidate == CHOOSE c \in Candidates : c.time # NULL

InitEngine ==
    /\ userInput = ""
    /\ parsedTask = NULL
    /\ editedTask = NULL
    /\ tasks = <<LocalTask(0, SeedCandidate), LocalTask(1, SeedCandidate)>>
    /\ isEditing = FALSE
    /\ isLoading = FALSE
    /\ error = NULL
    /\ pomodoroSettings \in [SettingsFields -> SettingValues]
    /\ activeTimer = NULL
    /\ googleCalendarSync = [connected |-> FALSE, user |-> NULL]
    /\ now = 1
    /\ lastOp = [op |-> "init", id |-> 0]

NextEngine ==
    \/ \E taskId \in TaskIds : handleStartTimer(taskId)
    \/ handlePauseResumeTimer
    \/ handleSkip
    \/ handleResetTimer
    \/ \E field \in SettingsFields, value \in SettingTexts :
           handleSettingsChange(field, value)
    \/ Tick

SpecEngine == InitEngine /\ [][NextEngine]_vars

\* ------------------------------------------- one configuration, held fixed
\* The same store; the settings are the defaults or any the dialog can have
\* produced, and the dialog is not used again.

InitSession ==
    /\ userInput = ""
    /\ parsedTask = NULL
    /\ editedTask = NULL
    /\ tasks = <<LocalTask(0, SeedCandidate), LocalTask(1, SeedCandidate)>>
    /\ isEditing = FALSE
    /\ isLoading = FALSE
    /\ error = NULL
    /\ pomodoroSettings \in [SettingsFields -> SettingValues] \cup {DEFAULT_SETTINGS}
    /\ activeTimer = NULL
    /\ googleCalendarSync = [connected |-> FALSE, user |-> NULL]
    /\ now = 1
    /\ lastOp = [op |-> "init", id |-> 0]

NextSession ==
    \/ \E taskId \in TaskIds : handleStartTimer(taskId)
    \/ handlePauseResumeTimer
    \/ handleSkip
    \/ handleResetTimer
    \/ Tick

SpecSession == InitSession /\ [][NextSession]_vars

\* ------------------------------------------------ the countdown left alone
\* A timer is started and nothing but the interval touches it.  setInterval
\* fires for as long as a timer is running (lines 65-78), so Tick is weakly
\* fair.

NextLive ==
    \/ \E taskId \in TaskIds : handleStartTimer(taskId)
    \/ Tick

SpecLive == InitEngine /\ [][NextLive]_vars /\ WF_vars(Tick)

\* ------------------------------------------------------ candidate flow

\* line 384: typing into the textarea (disabled while loading)
setUserInput(text) ==
    /\ ~isLoading
    /\ userInput' = text
    /\ lastOp' = [op |-> "input", id |-> 0]
    /\ UNCHANGED <<parsedTask, editedTask, isEditing, isLoading, error,
                   tasks, pomodoroSettings, activeTimer, googleCalendarSync, now>>

\* lines 149-155 (button at 389): handleSubmit up to its await
handleSubmit ==
    /\ ~isLoading
    /\ userInput # ""
    /\ isLoading' = TRUE
    /\ error' = NULL
    /\ parsedTask' = NULL
    /\ isEditing' = FALSE
    /\ lastOp' = [op |-> "submit", id |-> 0]
    /\ UNCHANGED <<userInput, editedTask,
                   tasks, pomodoroSettings, activeTimer, googleCalendarSync, now>>

\* A completion that puts the parsed result into the store at once.
SubmitSucceeds_AutoCommits(parsedJson) ==
    /\ isLoading
    /\ Len(tasks) < MaxTasks
    /\ parsedTask' = parsedJson
    /\ editedTask' = parsedJson
    /\ isLoading' = FALSE
    /\ tasks' = Append(tasks, [id |-> now, taskName |-> parsedJson.taskName,
                               date |-> parsedJson.date, time |-> parsedJson.time,
                               category |-> parsedJson.category,
                               priority |-> parsedJson.priority,
                               status |-> "active", source |-> "lucid"])
    /\ lastOp' = [op |-> "parsed", id |-> 0]
    /\ UNCHANGED <<userInput, isEditing, error,
                   pomodoroSettings, activeTimer, googleCalendarSync, now>>

\* lines 200-202, 207-209: the service answered and its text parsed
SubmitSucceeds(parsedJson) ==
    /\ isLoading
    /\ parsedTask' = parsedJson
    /\ editedTask' = parsedJson
    /\ isLoading' = FALSE
    /\ lastOp' = [op |-> "parsed", id |-> 0]
    /\ UNCHANGED <<userInput, isEditing, error,
                   tasks, pomodoroSettings, activeTimer, googleCalendarSync, now>>

\* lines 204-209: the service call or JSON.parse threw
SubmitFails ==
    /\ isLoading
    /\ error' = [message |-> "Sorry, I had trouble understanding that."]
    /\ isLoading' = FALSE
    /\ lastOp' = [op |-> "parseFailed", id |-> 0]
    /\ UNCHANGED <<userInput, parsedTask, editedTask, isEditing,
                   tasks, pomodoroSettings, activeTimer, googleCalendarSync, now>>

\* line 397: the result card is rendered
CardShown == parsedTask # NULL /\ ~isLoading

\* line 214: the record handleAccept builds
NewTask(candidate, id) ==
    [id |-> id, taskName |-> candidate.taskName, date |-> candidate.date,
     time |-> candidate.time, category |-> candidate.category,
     priority |-> candidate.priority, status |-> "active", source |-> "lucid"]

\* lines 212-219 (button at 414)
handleAccept ==
    /\ CardShown /\ ~isEditing
    /\ Len(tasks) < MaxTasks
    /\ tasks' = Append(tasks, NewTask(parsedTask, now))
    /\ parsedTask' = NULL
    /\ userInput' = ""
    /\ lastOp' = [op |-> "accept", id |-> now]
    /\ UNCHANGED <<editedTask, isEditing, isLoading, error,
                   pomodoroSettings, activeTimer, googleCalendarSync, now>>

\* lines 221-224 (button at 413)
handleCancel ==
    /\ CardShown /\ ~isEditing
    /\ parsedTask' = NULL
    /\ editedTask' = NULL
    /\ lastOp' = [op |-> "cancel", id |-> 0]
    /\ UNCHANGED <<userInput, isEditing, isLoading, error,
                   tasks, pomodoroSettings, activeTimer, googleCalendarSync, now>>

\* lines 412 and 434: the Edit button and the edit form's Cancel button
setIsEditing(value) ==
    /\ CardShown /\ isEditing # value
    /\ isEditing' = value
    /\ lastOp' = [op |-> "editing", id |-> 0]
    /\ UNCHANGED <<userInput, parsedTask, editedTask, isLoading, error,
                   tasks, pomodoroSettings, activeTimer, googleCalendarSync, now>>

\* lines 226-231 (button at 435)
handleSaveEdit ==
    /\ CardShown /\ isEditing
    /\ IF editedTask # NULL
         THEN parsedTask' = editedTask /\ isEditing' = FALSE
         ELSE UNCHANGED <<parsedTask, isEditing>>
    /\ lastOp' = [op |-> "saveEdit", id |-> 0]
    /\ UNCHANGED <<userInput, editedTask, isLoading, error,
                   tasks, pomodoroSettings, activeTimer, googleCalendarSync, now>>

\* Edits made in the form: a field and the value typed or selected.
EditInputs == { <<"priority", "Medium">> }

\* lines 233-237 (inputs at 420-432)
handleEditChange(field, value) ==
    /\ CardShown /\ isEditing
    /\ editedTask' = IF editedTask # NULL
                       THEN [editedTask EXCEPT ![field] = value]
                       ELSE editedTask
    /\ lastOp' = [op |-> "editChange", id |-> 0]
    /\ UNCHANGED <<userInput, parsedTask, isEditing, isLoading, error,
                   tasks, pomodoroSettings, activeTimer, googleCalendarSync, now>>

\* ------------------------------------------------------------ task store

\* lines 240-244: the array handleToggleComplete passes to setTasks
ToggledTasks(taskId) ==
    [i \in DOMAIN tasks |->
        LET task == tasks[i]
        IN  IF task.id = taskId
            THEN [task EXCEPT !.status = IF task.status = "active"
                                          THEN "completed" ELSE "active"]
            ELSE task]

\* lines 245-247: the timer handleToggleComplete leaves
TimerAfterToggle(taskId) ==
    IF activeTimer # NULL /\ activeTimer.taskId = taskId THEN NULL ELSE activeTimer

\* lines 239-248
handleToggleComplete(taskId) ==
    /\ tasks' = ToggledTasks(taskId)
    /\ activeTimer' = TimerAfterToggle(taskId)
    /\ lastOp' = [op |-> "toggle", id |-> taskId]
    /\ UNCHANGED <<parseVars, pomodoroSettings, googleCalendarSync, now>>

\* lines 255-268: the array handleEventDrop's updater returns
MovedTasks(taskId, newStartDate, allDay) ==
    [i \in DOMAIN tasks |->
        LET task == tasks[i]
        IN  IF task.id = taskId
            THEN [task EXCEPT
                     !.date = toLocaleDateString(newStartDate),
                     !.time = IF allDay THEN NULL
                                        ELSE toLocaleTimeString(newStartDate)]
            ELSE task]

\* lines 250-269
handleEventDrop(taskId, newStartDate, allDay) ==
    /\ tasks' = MovedTasks(taskId, newStartDate, allDay)
    /\ lastOp' = [op |-> "eventDrop", id |-> taskId]
    /\ UNCHANGED <<parseVars, pomodoroSettings, activeTimer, googleCalendarSync, now>>

\* lines 271-273 (button at 374)
handleConnectGoogleCalendar ==
    /\ ~googleCalendarSync.connected
    /\ googleCalendarSync' =
           [connected |-> TRUE, user |-> [address |-> "user@example.com"]]
    /\ lastOp' = [op |-> "connect", id |-> 0]
    /\ UNCHANGED <<parseVars, tasks, pomodoroSettings, activeTimer, now>>

\* A filter that removes every task.
WithoutGoogle_DropsAll(ts) == SubSeq(ts, 1, 0)

\* line 277 and line 307: filter(task => task.source !== 'google')
WithoutGoogle(ts) == SelectSeq(ts, LAMBDA task : task.source # "google")

\* lines 275-278 (button at 370)
handleDisconnectGoogleCalendar ==
    /\ googleCalendarSync.connected
    /\ googleCalendarSync' = [connected |-> FALSE, user |-> NULL]
    /\ tasks' = WithoutGoogle(tasks)
    /\ lastOp' = [op |-> "disconnect", id |-> 0]
    /\ UNCHANGED <<parseVars, pomodoroSettings, activeTimer, now>>

\* lines 285-306: Date.now() is read at line 287 (first) and again at line
\* 297 (second); today and tomorrow are the days of lines 281-283.
googleEvents(first, second) ==
    << [id |-> first, taskName |-> "Team Standup",
        date |-> toLocaleDateString(first),
        time |-> [hour |-> 10, minute |-> 0, pm |-> FALSE],
        category |-> "Work", priority |-> "Medium",
        status |-> "active", source |-> "google"],
       [id |-> second + 1, taskName |-> "Design Review",
        date |-> toLocaleDateString(first + MsPerDay),
        time |-> [hour |-> 2, minute |-> 30, pm |-> TRUE],
        category |-> "Work", priority |-> "High",
        status |-> "active", source |-> "google"] >>

\* A Sync Now that appends the batch to everything the store holds.
handleSyncNow_KeepsOld ==
    /\ googleCalendarSync.connected
    /\ Len(WithoutGoogle(tasks)) + 2 <= MaxTasks
    /\ \E second \in {now, now + 1} :
          /\ second <= MaxNow
          /\ tasks' = tasks \o googleEvents(now, second)
          /\ now' = second
    /\ lastOp' = [op |-> "sync", id |-> now]
    /\ UNCHANGED <<parseVars, pomodoroSettings, activeTimer, googleCalendarSync>>

\* lines 280-309 (button at 369); the clock may move between the two reads
handleSyncNow ==
    /\ googleCalendarSync.connected
    /\ Len(WithoutGoogle(tasks)) + 2 <= MaxTasks
    /\ \E second \in {now, now + 1} :
          /\ second <= MaxNow
          /\ tasks' = WithoutGoogle(tasks) \o googleEvents(now, second)
          /\ now' = second
    /\ lastOp' = [op |-> "sync", id |-> now]
    /\ UNCHANGED <<parseVars, pomodoroSettings, activeTimer, googleCalendarSync>>

\* A millisecond passes.
ClockTick ==
    /\ now < MaxNow
    /\ now' = now + 1
    /\ lastOp' = [op |-> "clock", id |-> 0]
    /\ UNCHANGED <<parseVars, tasks, pomodoroSettings, activeTimer, googleCalendarSync>>

\* ------------------------------------------ the store with its timer
\* Tasks are accepted, synced and toggled, and a timer is attached and
\* reset; the countdown, the edit form and the calendar are left to the
\* other specifications.

NextTasks ==
    \/ setUserInput("Meeting with Jake at 3 PM Thursday")
    \/ handleSubmit
    \/ \E parsedJson \in Candidates : SubmitSucceeds(parsedJson)
    \/ handleAccept
    \/ \E taskId \in TaskIds : handleToggleComplete(taskId)
    \/ handleConnectGoogleCalendar
    \/ handleDisconnectGoogleCalendar
    \/ handleSyncNow
    \/ ClockTick
    \/ \E taskId \in TaskIds : handleStartTimer(taskId)
    \/ handleResetTimer

SpecTasks == Init /\ [][NextTasks]_vars

\* ------------------------------------------ synced tasks on the calendar
\* The store holds what Sync Now puts there; tasks are toggled and dragged
\* on the calendar, and a timer is attached and reset.

NextMove ==
    \/ handleConnectGoogleCalendar
    \/ handleDisconnectGoogleCalendar
    \/ handleSyncNow
    \/ ClockTick
    \/ \E taskId \in TaskIds : handleToggleComplete(taskId)
    \/ \E taskId \in TaskIds, newStartDate \in DropTimes, allDay \in BOOLEAN :
           handleEventDrop(taskId, newStartDate, allDay)
    \/ \E taskId \in TaskIds : handleStartTimer(taskId)
    \/ handleResetTimer

SpecMove == Init /\ [][NextMove]_vars

\* ------------------------------------------ accepted tasks on the calendar
\* Tasks are accepted and synced, and dragged on the calendar.

NextCalendar ==
    \/ setUserInput("Meeting with Jake at 3 PM Thursday")
    \/ handleSubmit
    \/ \E parsedJson \in Candidates : SubmitSucceeds(parsedJson)
    \/ handleAccept
    \/ handleConnectGoogleCalendar
    \/ handleSyncNow
    \/ ClockTick
    \/ \E taskId \in TaskIds, newStartDate \in DropTimes, allDay \in BOOLEAN :
           handleEventDrop(taskId, newStartDate, allDay)

SpecCalendar == Init /\ [][NextCalendar]_vars

\* ------------------------------------------ the candidate and its form
\* Texts are submitted, parsed or not, edited, saved, cancelled and
\* accepted, with the clock running.

NextParse ==
    \/ setUserInput("Meeting with Jake at 3 PM Thursday")
    \/ handleSubmit
    \/ \E parsedJson \in Candidates : SubmitSucceeds(parsedJson)
    \/ SubmitFails
    \/ handleAccept
    \/ handleCancel
    \/ \E value \in BOOLEAN : setIsEditing(value)
    \/ handleSaveEdit
    \/ \E edit \in EditInputs : handleEditChange(edit[1], edit[2])
    \/ ClockTick

SpecParse == Init /\ [][NextParse]_vars

\* ------------------------------------------------------ the whole program

Next ==
    \/ \E text \in {"", "Meeting with Jake at 3 PM Thursday"} : setUserInput(text)
    \/ handleSubmit
    \/ \E parsedJson \in Candidates : SubmitSucceeds(parsedJson)
    \/ SubmitFails
    \/ handleAccept
    \/ handleCancel
    \/ \E value \in BOOLEAN : setIsEditing(value)
    \/ handleSaveEdit
    \/ \E e \in EditInputs : handleEditChange(e[1], e[2])
    \/ \E taskId \in TaskIds : handleToggleComplete(taskId)
    \/ \E taskId \in TaskIds, newStartDate \in DropTimes, allDay \in BOOLEAN :
           handleEventDrop(taskId, newStartDate, allDay)
    \/ handleConnectGoogleCalendar
    \/ handleDisconnectGoogleCalendar
    \/ handleSyncNow
    \/ ClockTick
    \/ NextEngine

Spec == Init /\ [][Next]_vars

\* --------------------------------------------------------- derived lists

\* line 314: priorityOrder
priorityOrder(priority) ==
    CASE priority = "High"   -> 1
      [] priority = "Medium" -> 2
      [] priority = "Low"    -> 3

\* line 315: the comparator (a, b) => priorityOrder[a.priority] - priorityOrder[b.priority]
comparePriority(a, b) == priorityOrder(a.priority) - priorityOrder(b.priority)

\* An insertion that puts x before the elements it compares equal to.
SortInsert_BeforeEquals(sorted, x) ==
    LET p == Cardinality({i \in DOMAIN sorted : comparePriority(sorted[i], x) < 0})
    IN  SubSeq(sorted, 1, p) \o <<x>> \o SubSeq(sorted, p + 1, Len(sorted))

\* line 315: Array.prototype.sort is a stable sort (ECMAScript 2019): an
\* element goes after every element that does not compare greater than it.
SortInsert(sorted, x) ==
    LET p == Cardinality({i \in DOMAIN sorted : comparePriority(sorted[i], x) <= 0})
    IN  SubSeq(sorted, 1, p) \o <<x>> \o SubSeq(sorted, p + 1, Len(sorted))

RECURSIVE SortByPriority(_)
SortByPriority(s) ==
    IF s = <<>> THEN <<>>
    ELSE SortInsert(SortByPriority(SubSeq(s, 1, Len(s) - 1)), s[Len(s)])

\* line 315
sortedActiveTasks == SortByPriority(activeTasks)

\* A parser that reads every text that is no date as day 0.
parseTaskDateTime_ReadsAnyText(task) ==
    IF task.date = NULL \/ "day" \notin DOMAIN task.date THEN [time |-> 0]
    ELSE IF task.time = NULL THEN [time |-> task.date.day * MsPerDay]
    ELSE [time |-> task.date.day * MsPerDay
                     + (((task.time.hour % 12) + (IF task.time.pm THEN 12 ELSE 0)) * 60
                          + task.time.minute) * MsPerMinute]

\* lines 317-326: new Date(`${task.date} ${task.time}`) or new Date(task.date),
\* as the legacy parser of the engine reads the en-US texts: the day's
\* midnight when there is no time text, no result (NULL, with a warning)
\* for a text that is no date.  A result is the record [time |-> ms].
parseTaskDateTime(task) ==
    IF task.date = NULL \/ "day" \notin DOMAIN task.date THEN NULL
    ELSE IF task.time = NULL THEN [time |-> task.date.day * MsPerDay]
    ELSE [time |-> task.date.day * MsPerDay
                     + (((task.time.hour % 12) + (IF task.time.pm THEN 12 ELSE 0)) * 60
                          + task.time.minute) * MsPerMinute]

\* lines 329-337: the event of one task, NULL when its date does not parse;
\* className is the record of the three parts it is made of.
calendarEvent(task) ==
    LET start == parseTaskDateTime(task)
    IN  IF start = NULL THEN NULL
        ELSE [id        |-> toString(task.id),
              title     |-> task.taskName,
              start     |-> start,
              allDay    |-> task.time = NULL,
              className |-> [category |-> task.category,
                             google   |-> task.source = "google",
                             priority |-> task.priority]]

\* lines 328-338: activeTasks.map(...).filter(Boolean)
calendarEvents ==
    SelectSeq([i \in DOMAIN activeTasks |-> calendarEvent(activeTasks[i])],
              LAMBDA event : event # NULL)

\* ================================================================ claims

HasTimer == activeTimer # NULL

\* A step in which the timer is present before and after and changes mode.
ModeTransition == HasTimer /\ HasTimer' /\ activeTimer'.mode # activeTimer.mode

\* C1: whenever a timer is present, its taskId names a task that is in the
\* store with status active.
C1_TimerTaskActive == HasTimer => InActiveList(activeTimer.taskId)

C3_UniqueIds ==
    \A i, j \in DOMAIN tasks : i # j => tasks[i].id # tasks[j].id

\* C4: a step from work to a break raises cycleCount by one, goes to
\* longBreak exactly when the new cycleCount is a multiple of
\* pomodoroSettings.cycles and to shortBreak otherwise, and sets timeLeft to
\* that mode's minutes times 60; a skip out of work always is such a step.
C4_BreakChoice ==
    [][ /\ (HasTimer /\ HasTimer' /\ activeTimer.mode = "work"
               /\ activeTimer'.mode # "work")
           => LET n    == activeTimer.cycleCount + 1
                  long == n % pomodoroSettings.cycles = 0
              IN  /\ activeTimer'.cycleCount = n
                  /\ activeTimer'.mode = IF long THEN "longBreak" ELSE "shortBreak"
                  /\ activeTimer'.timeLeft =
                        SecondsPerMinute * (IF long THEN pomodoroSettings.longBreak
                                                    ELSE pomodoroSettings.shortBreak)
                  /\ activeTimer'.taskId = activeTimer.taskId
        /\ (HasTimer /\ activeTimer.mode = "work" /\ lastOp'.op = "skip")
           => (HasTimer' /\ activeTimer'.mode # "work") ]_vars

\* The scenario of the defaults {25, 5, 15, 4}: the 4th work interval has
\* just run out and the timer stands at the start of the long break.
C4_Witness ==
    /\ pomodoroSettings = DEFAULT_SETTINGS
    /\ lastOp.op = "tick"
    /\ HasTimer
    /\ activeTimer.mode = "longBreak"
    /\ activeTimer.cycleCount = DEFAULT_SETTINGS.cycles
    /\ activeTimer.timeLeft = DEFAULT_SETTINGS.longBreak * SecondsPerMinute

\* C5: after every mode transition isPaused is false.
C5_TransitionClearsPause ==
    [][ ModeTransition => ~activeTimer'.isPaused ]_vars

\* C6: a tick leaves the timer present, for the same task and with
\* timeLeft >= 1, and a tick that ends a countdown leaves the record of the
\* next mode with its full configured timeLeft.
C6_TickTransitions ==
    [][ (HasTimer /\ lastOp'.op = "tick")
          => /\ HasTimer'
             /\ activeTimer'.taskId = activeTimer.taskId
             /\ activeTimer'.timeLeft >= 1
             /\ activeTimer.timeLeft <= 1
                   => activeTimer' = transitionToNextMode(activeTimer) ]_vars

\* C7: while a timer is present its cycleCount never decreases: a step from
\* work to a break raises it by exactly one and every other step (break to
\* work, an ordinary tick, pause or resume, a settings change, a refused
\* start) leaves it unchanged.
C7_CycleCountMonotone ==
    [][ (HasTimer /\ HasTimer')
          => /\ activeTimer'.cycleCount >= activeTimer.cycleCount
             /\ activeTimer'.cycleCount =
                   IF activeTimer.mode = "work" /\ activeTimer'.mode # "work"
                   THEN activeTimer.cycleCount + 1
                   ELSE activeTimer.cycleCount ]_vars

C7_Witness ==
    /\ lastOp.op = "settings"
    /\ HasTimer
    /\ activeTimer.mode = "work"
    /\ activeTimer.cycleCount = 3

\* C8: with the interval left to fire, a work interval is always followed
\* by a break and a break by work.
C8_ModesAlternate ==
    /\ (HasTimer /\ activeTimer.mode = "work" /\ activeTimer.cycleCount < MaxCycle)
          ~> (HasTimer /\ activeTimer.mode # "work")
    /\ (HasTimer /\ activeTimer.mode # "work")
          ~> (HasTimer /\ activeTimer.mode = "work")

\* The fields of a task other than its status.
SameButStatus(a, b) == [a EXCEPT !.status = b.status] = b

\* C9: handleToggleComplete on a task in the store resets the timer when it
\* is attached to that task and leaves it unchanged otherwise, and flips the
\* status of exactly one task, changing nothing else in the store.
C9_ToggleFlipsOne ==
    [][ (lastOp'.op = "toggle" /\ HasTask(lastOp'.id))
          => /\ activeTimer' = IF HasTimer /\ activeTimer.taskId = lastOp'.id
                               THEN NULL ELSE activeTimer
             /\ Len(tasks') = Len(tasks)
             /\ \E i \in DOMAIN tasks :
                   /\ tasks[i].id = lastOp'.id
                   /\ tasks'[i].status # tasks[i].status
                   /\ SameButStatus(tasks[i], tasks'[i])
                   /\ \A j \in DOMAIN tasks : j # i => tasks'[j] = tasks[j]
             /\ UNCHANGED <<parseVars, pomodoroSettings, googleCalendarSync, now>>
      ]_vars

\* C10: handleToggleComplete and handleEventDrop with an id that is not in
\* the store change neither the store nor the timer.
C10_UnknownIdNoOp ==
    [][ (lastOp'.op \in {"toggle", "eventDrop"} /\ ~HasTask(lastOp'.id))
          => (tasks' = tasks /\ activeTimer' = activeTimer) ]_vars

\* The tasks of s with the given priority, in the order of s.
WithPriority(s, priority) == SelectSeq(s, LAMBDA task : task.priority = priority)

\* C11: sortedActiveTasks holds exactly the tasks with status active, the
\* High ones first, then Medium, then Low, and within one priority in the
\* order they have in the store.
C11_StableByPriority ==
    sortedActiveTasks =
        WithPriority(activeTasks, "High") \o WithPriority(activeTasks, "Medium")
            \o WithPriority(activeTasks, "Low")

\* A revived task stands in the store before an active task of its priority.
C11_Witness ==
    /\ lastOp.op = "toggle"
    /\ \E i, j \in DOMAIN tasks :
          /\ i < j
          /\ tasks[i].id = lastOp.id
          /\ tasks[i].status = "active" /\ tasks[j].status = "active"
          /\ tasks[i].priority = tasks[j].priority
          /\ tasks[i].source # tasks[j].source
    /\ \E k \in DOMAIN tasks : tasks[k].priority = "Medium"

\* The tasks of ts that came from the calendar source, and the others.
GoogleOrigin(ts) == SelectSeq(ts, LAMBDA task : task.source = "google")
LocalOrigin(ts) == SelectSeq(ts, LAMBDA task : task.source # "google")

\* C12: a Sync Now step leaves the local tasks as they were (fields, status
\* and order) and puts them first; the calendar tasks after it are exactly
\* the two of the new batch, both active, whatever calendar tasks (of an
\* earlier batch, completed or not) the store held before.
C12_SyncReplacesBatch ==
    [][lastOp'.op = "sync" =>
          /\ LocalOrigin(tasks') = LocalOrigin(tasks)
          /\ tasks' = LocalOrigin(tasks) \o GoogleOrigin(tasks')
          /\ Len(GoogleOrigin(tasks')) = 2
          /\ GoogleOrigin(tasks')[1].id = lastOp'.id
          /\ GoogleOrigin(tasks')[1].taskName = "Team Standup"
          /\ GoogleOrigin(tasks')[2].id = now' + 1
          /\ GoogleOrigin(tasks')[2].taskName = "Design Review"
          /\ \A i \in 1..2 : GoogleOrigin(tasks')[i].status = "active"
          /\ UNCHANGED <<activeTimer, parseVars, pomodoroSettings>>]_vars

\* A second batch (read at a later clock value than the first could have
\* been) stands after a completed local task.
C12_Witness ==
    /\ lastOp.op = "sync"
    /\ lastOp.id = MaxNow
    /\ Len(GoogleOrigin(tasks)) = 2
    /\ \E i \in DOMAIN tasks : tasks[i].source = "lucid" /\ tasks[i].status = "completed"

\* C13: the local tasks of the store stay in it, in their places, across
\* every step; the store shrinks in no step but Disconnect and Sync Now;
\* and a Disconnect step leaves no calendar task and the local tasks as
\* they were.
C13_LocalTasksPersist ==
    [][/\ Len(LocalOrigin(tasks')) >= Len(LocalOrigin(tasks))
       /\ \A i \in DOMAIN LocalOrigin(tasks) :
             /\ LocalOrigin(tasks')[i].id = LocalOrigin(tasks)[i].id
             /\ LocalOrigin(tasks')[i].taskName = LocalOrigin(tasks)[i].taskName
       /\ (Len(tasks') < Len(tasks) => lastOp'.op \in {"disconnect", "sync"})
       /\ (lastOp'.op = "disconnect" =>
              /\ GoogleOrigin(tasks') = <<>>
              /\ tasks' = LocalOrigin(tasks))]_vars

\* Disconnect has acted on a store that holds a local task.
C13_Witness ==
    /\ lastOp.op = "disconnect"
    /\ ~googleCalendarSync.connected
    /\ tasks # <<>>
    /\ \A i \in DOMAIN tasks : tasks[i].source = "lucid"

\* t with its seconds and milliseconds dropped, and the midnight of its day.
MinuteOf(t) == (t \div MsPerMinute) * MsPerMinute
MidnightOf(t) == (t \div MsPerDay) * MsPerDay

\* C14, as stated: whatever the all-day flag, a task moved to t has date and
\* time texts that parse back to t, to the minute.
C14_RoundTripAnyFlag ==
    [][\A taskId \in TaskIds, t \in DropTimes, allDay \in BOOLEAN :
          handleEventDrop(taskId, t, allDay) =>
              \A i \in DOMAIN tasks :
                  tasks[i].id = taskId =>
                      parseTaskDateTime(tasks'[i]) = [time |-> MinuteOf(t)]]_vars

\* C14: a task moved to t as a timed event has texts that parse back to t
\* with seconds and milliseconds dropped; moved as an all-day event it has
\* texts that parse back to the midnight that starts t's day, which is t to
\* the minute only when t has no clock component.
C14_RoundTrip ==
    [][\A taskId \in TaskIds, t \in DropTimes, allDay \in BOOLEAN :
          handleEventDrop(taskId, t, allDay) =>
              \A i \in DOMAIN tasks :
                  tasks[i].id = taskId =>
                      parseTaskDateTime(tasks'[i]) =
                          [time |-> IF allDay THEN MidnightOf(t) ELSE MinuteOf(t)]]_vars

\* One task was moved as an all-day event to a time after noon, another as
\* a timed event to that time.
C14_Witness ==
    /\ lastOp.op = "eventDrop"
    /\ \E i, j \in DOMAIN tasks, t \in DropTimes :
          /\ t # MidnightOf(t)
          /\ tasks[i].id = lastOp.id
          /\ tasks[i].date = toLocaleDateString(t) /\ tasks[i].time = NULL
          /\ tasks[j].date = toLocaleDateString(t)
          /\ tasks[j].time = [hour |-> 1, minute |-> 5, pm |-> TRUE]

\* C15: a calendar move of a task in the store changes one task, and of it
\* only date (the day text of t) and time (absent for an all-day move, the
\* clock text of t otherwise); every other task, the timer, the settings,
\* the connection and the candidate are unchanged.
C15_MoveChangesOneTask ==
    [][\A taskId \in TaskIds, t \in DropTimes, allDay \in BOOLEAN :
          handleEventDrop(taskId, t, allDay) /\ HasTask(taskId) =>
              /\ \E i \in DOMAIN tasks :
                    /\ tasks[i].id = taskId
                    /\ tasks' = [tasks EXCEPT
                                    ![i].date = toLocaleDateString(t),
                                    ![i].time = IF allDay THEN NULL
                                                ELSE toLocaleTimeString(t)]
              /\ UNCHANGED <<activeTimer, pomodoroSettings, googleCalendarSync,
                             parseVars>>]_vars

CandidateFields == {"taskName", "date", "time", "category", "priority"}

\* C16: the store changes in no step of the candidate flow but Accept,
\* which is taken with the candidate displayed (present, not loading, not
\* in the edit form) and appends one task: active, of local origin, with
\* the candidate's name, date, time, category and priority.
C16_OnlyAcceptCommits ==
    [][tasks' # tasks =>
          /\ lastOp'.op = "accept"
          /\ parsedTask # NULL /\ ~isLoading /\ ~isEditing
          /\ Len(tasks') = Len(tasks) + 1
          /\ SubSeq(tasks', 1, Len(tasks)) = tasks
          /\ LET newTask == tasks'[Len(tasks')]
             IN  /\ newTask.status = "active"
                 /\ newTask.source = "lucid"
                 /\ \A field \in CandidateFields : newTask[field] = parsedTask[field]]_vars

\* A candidate whose priority was edited and saved has been accepted.
C16_Witness ==
    /\ lastOp.op = "accept"
    /\ tasks # <<>>
    /\ tasks[Len(tasks)].priority = "Medium"
    /\ parsedTask = NULL

\* C17: a failed submit sets the error message and leaves no candidate and
\* no edit buffer, whatever earlier submits did, and the store as it was.
C17_FailureLeavesNoCandidate ==
    [][lastOp'.op = "parseFailed" =>
          /\ error' # NULL
          /\ parsedTask' = NULL
          /\ editedTask' = NULL
          /\ tasks' = tasks]_vars

\* The date text of the task is no date.
Unparseable(task) == "text" \in DOMAIN task.date

\* C18: a task whose date text does not parse has no timestamp and no
\* calendar event (the events are, one each, those of the active tasks with
\* a date), and it stands in sortedActiveTasks when active and in
\* completedTasks when completed.
C18_UnparseableOnlyInLists ==
    /\ \A i \in DOMAIN tasks :
          Unparseable(tasks[i]) =>
              /\ parseTaskDateTime(tasks[i]) = NULL
              /\ tasks[i].status = "active" =>
                    \E k \in DOMAIN sortedActiveTasks : sortedActiveTasks[k] = tasks[i]
              /\ tasks[i].status = "completed" =>
                    \E k \in DOMAIN completedTasks : completedTasks[k] = tasks[i]
    /\ Len(calendarEvents) =
          Cardinality({i \in DOMAIN tasks :
                          tasks[i].status = "active" /\ ~Unparseable(tasks[i])})
    /\ \A k \in DOMAIN calendarEvents :
          \E i \in DOMAIN tasks :
              /\ tasks[i].status = "active" /\ ~Unparseable(tasks[i])
              /\ calendarEvents[k].id = toString(tasks[i].id)
              /\ calendarEvents[k].title = tasks[i].taskName
              /\ calendarEvents[k].start = parseTaskDateTime(tasks[i])

\* The store holds an active and a completed task without a date that
\* parses, and an active task that is on the calendar.
C18_Witness ==
    /\ \E i, j \in DOMAIN tasks :
          /\ Unparseable(tasks[i]) /\ tasks[i].status = "active"
          /\ Unparseable(tasks[j]) /\ tasks[j].status = "completed"
    /\ Len(calendarEvents) = 1
    /\ lastOp.op = "toggle"

\* C19: a settings change leaves the timer as it is (timeLeft, mode,
\* cycleCount, isPaused, taskId); a later change of mode, by Skip or at the
\* end of a countdown, starts the new mode with the minutes the settings
\* hold at that step, and a start gives the work minutes they hold then.
C19_SettingsSpareRunningTimer ==
    [][/\ lastOp'.op = "settings" => activeTimer' = activeTimer
       /\ ModeTransition =>
             activeTimer'.timeLeft
                 = pomodoroSettings[activeTimer'.mode] * SecondsPerMinute
       /\ lastOp'.op = "start" /\ activeTimer' # activeTimer =>
             activeTimer'.timeLeft = pomodoroSettings.work * SecondsPerMinute]_vars

\* The settings were changed under a running countdown, which goes on from
\* a length that is not the one the settings now give its mode.
C19_Witness ==
    /\ lastOp.op = "settings"
    /\ HasTimer
    /\ ~activeTimer.isPaused
    /\ activeTimer.timeLeft > pomodoroSettings[activeTimer.mode] * SecondsPerMinute

RECURSIVE Pow10(_)
Pow10(n) == IF n = 0 THEN 1 ELSE 10 * Pow10(n - 1)

\* The number a text denotes, as the fraction num / den with its sign apart:
\* an optional sign, digits, an optional fraction, an optional exponent;
\* any other text is not numeric.
TextNumber(text) ==
    LET signed    == text # <<>> /\ text[1] \in {"-", "+"}
        first     == IF signed THEN 2 ELSE 1
        ni        == DigitRun(text, first)
        dot       == first + ni
        hasFrac   == dot <= Len(text) /\ text[dot] = "."
        nf        == IF hasFrac THEN DigitRun(text, dot + 1) ELSE 0
        ePos      == IF hasFrac THEN dot + 1 + nf ELSE dot
        hasExp    == ePos <= Len(text) /\ text[ePos] \in {"e", "E"}
        expSigned == hasExp /\ ePos + 1 <= Len(text) /\ text[ePos + 1] \in {"-", "+"}
        eFirst    == IF expSigned THEN ePos + 2 ELSE ePos + 1
        ne        == IF hasExp THEN DigitRun(text, eFirst) ELSE 0
        end       == IF hasExp THEN eFirst + ne ELSE ePos
        exponent  == IF expSigned /\ text[ePos + 1] = "-"
                       THEN 0 - DigitsValue(text, eFirst, ne)
                       ELSE DigitsValue(text, eFirst, ne)
        mantissa  == DigitsValue(text, first, ni) * Pow10(nf)
                       + DigitsValue(text, dot + 1, nf)
        shift     == exponent - nf
    IN  [numeric  |-> ni + nf > 0 /\ (hasExp => ne > 0) /\ end = Len(text) + 1,
         negative |-> signed /\ text[1] = "-",
         num      |-> IF shift >= 0 THEN mantissa * Pow10(shift) ELSE mantissa,
         den      |-> IF shift >= 0 THEN 1 ELSE Pow10(0 - shift)]

\* C20: a settings change with a text that is no number, or a number that
\* is zero or negative, leaves the settings as they were; with a text that
\* denotes a positive integer it puts that integer into the named field
\* and leaves the other fields; the timer, the store, the candidate and
\* the connection are unchanged either way.
C20_InvalidSettingRejected ==
    [][\A field \in SettingsFields, value \in SettingTexts :
          handleSettingsChange(field, value) =>
              LET x == TextNumber(value)
              IN  /\ UNCHANGED <<activeTimer, tasks, parseVars, googleCalendarSync>>
                  /\ (~x.numeric \/ x.negative \/ x.num = 0) =>
                        pomodoroSettings' = pomodoroSettings
                  /\ (x.numeric /\ ~x.negative /\ x.num > 0 /\ x.num % x.den = 0) =>
                        pomodoroSettings' =
                            [pomodoroSettings EXCEPT ![field] = x.num \div x.den]]_vars

\* The places of the store that hold a task with the given status, and the
\* place of the k-th of them.
PlacesWith(status) == {i \in DOMAIN tasks : tasks[i].status = status}
PlaceOfNth(status, k) ==
    CHOOSE i \in PlacesWith(status) :
        Cardinality({j \in PlacesWith(status) : j <= i}) = k

\* How many times the task stands in the sequence.
TimesIn(s, task) == Cardinality({k \in DOMAIN s : s[k] = task})

\* C21: completedTasks is the completed tasks of the store, each once, in
\* the order they have in the store; no task in sortedActiveTasks is
\* completed; and every task of the store stands in exactly one of the two
\* lists, the one of its status, as often as it stands in the store.
C21_ListsPartitionStore ==
    /\ Len(completedTasks) = Cardinality(PlacesWith("completed"))
    /\ \A k \in DOMAIN completedTasks :
          completedTasks[k] = tasks[PlaceOfNth("completed", k)]
    /\ \A k \in DOMAIN sortedActiveTasks : sortedActiveTasks[k].status # "completed"
    /\ Len(sortedActiveTasks) + Len(completedTasks) = Len(tasks)
    /\ \A i \in DOMAIN tasks :
          /\ TimesIn(sortedActiveTasks, tasks[i]) + TimesIn(completedTasks, tasks[i])
                = TimesIn(tasks, tasks[i])
          /\ tasks[i].status = "completed" => TimesIn(sortedActiveTasks, tasks[i]) = 0
          /\ tasks[i].status = "active" => TimesIn(completedTasks, tasks[i]) = 0

\* After a sync and a toggle the store holds two different completed tasks,
\* a local one before a synced one, and an active task.
C21_Witness ==
    /\ lastOp.op = "toggle"
    /\ \E i, j, k \in DOMAIN tasks :
          /\ i < j
          /\ tasks[i].status = "completed" /\ tasks[i].source = "lucid"
          /\ tasks[j].status = "completed" /\ tasks[j].source = "google"
          /\ tasks[k].status = "active"

\* C22: the four settings are integers of at least 1, as the defaults are,
\* and a timer that is present has a timeLeft of at least 1.
C22_PositiveSettingsAndTimeLeft ==
    /\ \A field \in SettingsFields :
          /\ pomodoroSettings[field] \in Nat /\ pomodoroSettings[field] >= 1
          /\ DEFAULT_SETTINGS[field] \in Nat /\ DEFAULT_SETTINGS[field] >= 1
    /\ HasTimer => activeTimer.timeLeft \in Nat /\ activeTimer.timeLeft >= 1

\* The countdown of a break has reached its last second by ticks, with a
\* setting that the settings dialog raised.
C22_Witness ==
    /\ lastOp.op = "tick"
    /\ HasTimer
    /\ activeTimer.timeLeft = 1
    /\ activeTimer.mode # "work"
    /\ \E field \in SettingsFields : pomodoroSettings[field] = MaxSetting

====
